---- MODULE Spec2Model ----
(***************************************************************************)
(* gitwatch: a Session polls a list of git repositories.  Run() performs   *)
(* one initial pass (checkRepos(InitialEvent)), signals InitialDone, then  *)
(* loops on a select over ctx.Done, the ticker and newRepos.               *)
(*                                                                         *)
(* The git backend (go-git PlainOpen, PlainCloneContext, Worktree.Pull,    *)
(* the head read of GetEventFromRepo) and the file system are the          *)
(* environment: every outcome the code distinguishes is a nondeterministic *)
(* choice, constrained only by the state of the local copy.                *)
(***************************************************************************)
EXTENDS Integers, Sequences, FiniteSets, TLC

\* ------------------------------------------------------------------ bounds

\* The timer fires while a whole pass keeps the events dispatched in total
\* within this number.
MaxEvents == 2

\* The timer fires while fewer errors than this wait in Errors.
MaxErrors == 1

\* ------------------------------------------------------- program constants

\* make(chan error, 16)
ErrorsCap == 16

\* make(chan struct{}, 1)
InitialDoneCap == 1

\* ------------------------------------------------------------------ values

Paths == {"p1", "p2"}

\* A hydrated Repository: its URL and its fullPath.
Repo(u, p) == [URL |-> u, fullPath |-> p]

\* The repository lists New is called with.  Two entries may resolve to the
\* same fullPath (same Directory, or same last path segment of the URL).
RepoLists ==
    { <<>>,
      <<Repo("u1", "p1")>>,
      <<Repo("u1", "p1"), Repo("u2", "p1")>> }

\* The repositories the client calls Add with, once each.
AddRepos == { Repo("u2", "p2") }

\* What is on disk at a path: nothing; a directory PlainOpen fails on with
\* an error other than ErrRepositoryNotExists; a repository whose head
\* cannot be read (no commit, no remote "origin"); a repository in order.
NoCopy == [kind |-> "none", origin |-> "-"]

Corrupt == [kind |-> "corrupt", origin |-> "-"]

Copy(u) == [kind |-> "ok", origin |-> u]

Headless(u) == [kind |-> "nohead", origin |-> u]

\* What may be on disk when New is called.
LocalInit ==
    { [p \in Paths |-> IF p = "p1" THEN c1 ELSE c2] :
        c1 \in {NoCopy, Corrupt, Copy("u1"), Headless("u1")},
        c2 \in {NoCopy} }

\* Error values as the daemon distinguishes them: nil, an error for which
\* xerrors.Is(err, io.EOF) holds, any other error, ctx.Err().
Nil == "nil"

ErrKinds == {"eof", "err"}

Canceled == "canceled"

VARIABLES
    Repositories,   \* Session.Repositories
    InitialEvent,   \* Session.InitialEvent
    EventsCap,      \* cap(Session.Events) = len(repos) at New
    Events,         \* Session.Events: the buffered events, oldest first
    Errors,         \* Session.Errors: the number of buffered errors
    InitialDone,    \* Session.InitialDone: the number of buffered signals;
                    \* the session never receives from it, a caller may
    running,        \* Session.running
    cancelled,      \* Session.ctx is done
    tick,           \* the ticker's channel t.C holds a tick (capacity 1)
    local,          \* the file system: Paths -> local copy
    pc,             \* where the goroutine that called Run is
    initial,        \* checkRepos' parameter
    inInitial,      \* the pass in progress is the one of daemon line 159
    passRepos,      \* the slice the range loop of checkRepos iterates
    log,            \* per repository of the pass in progress: what its check did
    err,            \* daemon's err: the result of checkRepos
    ret,            \* what Run returned
    sending,        \* the events held by delivery goroutines
    adds,           \* the calls of Add: "blocked" on newRepos or "done",
                    \* and whether Run had been called (started)
    nDispatched,    \* events handed to a delivery goroutine so far
    nReceived,      \* events received from Events so far
    initialDoneSent,\* sends on InitialDone so far
    polled,         \* a pass was started from the timer case
    errBound,       \* the timer fires while fewer errors than this are unread
    cfg,            \* how far the program is in setting the session up:
                    \* "args", "list" (MakeRepositoryList returned), "made"
                    \* (New returned a session), "failed" (New returned nil)
    args,           \* the repository strings of the command line
    repos           \* the []Repository given to New

vars == <<Repositories, InitialEvent, EventsCap, Events, Errors, InitialDone,
          running, cancelled, tick, local, pc, initial, inInitial, passRepos,
          log, err, ret, sending, adds, nDispatched, nReceived,
          initialDoneSent, polled, errBound,
                   cfg, args, repos>>

\* ----------------------------------------------------------------- New

\* New: the session after construction.  newRepos is never made: it is nil.
New ==
    /\ Repositories \in RepoLists
    /\ InitialEvent \in BOOLEAN
    /\ EventsCap = Len(Repositories)
    /\ Events = <<>>
    /\ Errors = 0
    /\ InitialDone = 0
    /\ running = FALSE
    /\ cancelled = FALSE
    /\ tick = FALSE
    /\ local \in LocalInit
    /\ pc = "idle"
    /\ initial = FALSE
    /\ inInitial = FALSE
    /\ passRepos = <<>>
    /\ log = <<>>
    /\ err = Nil
    /\ ret = Nil
    /\ sending = {}
    /\ adds = {}
    /\ nDispatched = 0
    /\ nReceived = 0
    /\ initialDoneSent = 0
    /\ polled = FALSE
    /\ cfg = "made"
    /\ args = <<>>
    /\ repos = <<>>

Init ==
    /\ New
    /\ errBound = MaxErrors

\* ------------------------------------------------------- checkRepos' locals

\* What the check of one repository did, kept while its pass is in progress:
\* the outcome of PlainOpen, of the first cloneRepo, of Pull, of os.RemoveAll
\* and of the second cloneRepo ("-" when not called), the events the loop
\* dispatched for it and the error checkRepo returned.
NewEntry ==
    [open |-> "-", clone |-> "-", pull |-> "-", removed |-> "-",
     reclone |-> "-", evs |-> <<>>, err |-> Nil]

\* The position of the range loop and its loop variable.
idx == Len(log)

repository == passRepos[idx]

\* The log with one field of the current entry set.
Noted(l, field, value) == [l EXCEPT ![Len(l)][field] = value]

\* &Event{URL: remote.Config().URLs[0], Path: wt.Filesystem.Root(), ...}:
\* the URL is the one of the local copy's remote "origin", the path the
\* one the repository was opened or cloned at.
GetEventFromRepo(p, copy) ==
    [URL |-> copy.origin, Path |-> p, n |-> nDispatched + 1]

\* Dispatch with the send made by the loop itself: the pass goes on once
\* Events has room for the event.
Dispatch_Waits(e) ==
    /\ Len(Events) < EventsCap
    /\ sending' = sending \cup {e}
    /\ nDispatched' = nDispatched + 1

\* go func() { s.Events <- *event }()
Dispatch(e) ==
    /\ sending' = sending \cup {e}
    /\ nDispatched' = nDispatched + 1

NoDispatch == UNCHANGED <<sending, nDispatched>>

\* checkRepo returned without error: the loop goes on to the next repository
\* or, after the last one, checkRepos returns nil.
CheckDone(l) ==
    IF Len(l) < Len(passRepos)
    THEN /\ log' = Append(l, NewEntry)
         /\ pc' = "open"
         /\ err' = err
    ELSE /\ log' = l
         /\ pc' = "ret"
         /\ err' = Nil

\* checkRepo returned an event: it is dispatched, then as CheckDone.
CheckEvent(l, e) ==
    /\ Dispatch(e)
    /\ CheckDone(Noted(l, "evs", Append(l[Len(l)].evs, e)))

\* CheckFail without the return: the error is kept and the loop goes on
\* to the next repository.
CheckFail_GoesOn(l, k) ==
    /\ IF Len(l) < Len(passRepos)
       THEN /\ log' = Append(Noted(l, "err", k), NewEntry)
            /\ pc' = "open"
       ELSE /\ log' = Noted(l, "err", k)
            /\ pc' = "ret"
    /\ err' = k
    /\ NoDispatch

\* checkRepo returned an error: checkRepos returns it at once.
CheckFail(l, k) ==
    /\ log' = Noted(l, "err", k)
    /\ pc' = "ret"
    /\ err' = k
    /\ NoDispatch

\* for _, repository := range s.Repositories: the slice is read once.
checkRepos(init, first) ==
    /\ passRepos' = Repositories
    /\ initial' = init
    /\ inInitial' = first
    /\ IF Repositories = <<>>
       THEN /\ log' = <<>>
            /\ pc' = "ret"
            /\ err' = Nil
       ELSE /\ log' = <<NewEntry>>
            /\ pc' = "open"
            /\ err' = Nil

\* ----------------------------------------------------------------- Run

\* Run -> daemon: running = true, the ticker is made, the initial pass
\* starts with initial = s.InitialEvent.
Run ==
    /\ pc = "idle"
    /\ running' = TRUE
    /\ checkRepos(InitialEvent, TRUE)
    /\ UNCHANGED <<Repositories, InitialEvent, EventsCap, Events, Errors,
                   InitialDone, cancelled, tick, local, ret, sending, adds,
                   nDispatched, nReceived, initialDoneSent, polled, errBound,
                   cfg, args, repos>>

\* Open with `if initial` left out: a repository that opens is pulled in
\* every pass.
Open_NoInitialEvent ==
    /\ pc = "open"
    /\ LET p == repository.fullPath
           c == local[p]
       IN  CASE c.kind = "none" ->
                  /\ log' = Noted(log, "open", "notexists")
                  /\ pc' = "clone"
                  /\ err' = err
                  /\ NoDispatch
             [] c.kind = "corrupt" ->
                  \E k \in ErrKinds : CheckFail(Noted(log, "open", "fail"), k)
             [] OTHER ->
                  /\ log' = Noted(log, "open", "ok")
                  /\ pc' = "pull"
                  /\ err' = err
                  /\ NoDispatch
    /\ UNCHANGED <<Repositories, InitialEvent, EventsCap, Events, Errors,
                   InitialDone, running, cancelled, tick, local, initial,
                   inInitial, passRepos, ret, adds, nReceived,
                   initialDoneSent, polled, errBound,
                   cfg, args, repos>>

\* checkRepo, git.PlainOpen(repository.fullPath) and, when it opens and
\* initial is set, the head read.
Open ==
    /\ pc = "open"
    /\ LET p == repository.fullPath
           c == local[p]
       IN  CASE c.kind = "none" ->
                  /\ log' = Noted(log, "open", "notexists")
                  /\ pc' = "clone"
                  /\ err' = err
                  /\ NoDispatch
             [] c.kind = "corrupt" ->
                  \E k \in ErrKinds : CheckFail(Noted(log, "open", "fail"), k)
             [] c.kind = "ok" /\ initial ->
                  CheckEvent(Noted(log, "open", "ok"), GetEventFromRepo(p, c))
             [] c.kind = "nohead" /\ initial ->
                  \E k \in ErrKinds : CheckFail(Noted(log, "open", "ok"), k)
             [] OTHER ->
                  /\ log' = Noted(log, "open", "ok")
                  /\ pc' = "pull"
                  /\ err' = err
                  /\ NoDispatch
    /\ UNCHANGED <<Repositories, InitialEvent, EventsCap, Events, Errors,
                   InitialDone, running, cancelled, tick, local, initial,
                   inInitial, passRepos, ret, adds, nReceived,
                   initialDoneSent, polled, errBound,
                   cfg, args, repos>>

\* Clone with `if initial` left out: a fresh clone always yields an event.
Clone_AlwaysEvent ==
    /\ pc = "clone"
    /\ LET p == repository.fullPath
       IN  \/ /\ ~cancelled
              /\ local' = [local EXCEPT ![p] = Copy(repository.URL)]
              /\ CheckEvent(Noted(log, "clone", "ok"),
                            GetEventFromRepo(p, Copy(repository.URL)))
           \/ /\ local' = local
              /\ \E k \in ErrKinds : CheckFail(Noted(log, "clone", "fail"), k)
    /\ UNCHANGED <<Repositories, InitialEvent, EventsCap, Events, Errors,
                   InitialDone, running, cancelled, tick, initial,
                   inInitial, passRepos, ret, adds, nReceived,
                   initialDoneSent, polled, errBound,
                   cfg, args, repos>>

\* Clone with the error of cloneRepo dropped: checkRepo returns nil, nil
\* when the clone fails.
Clone_DropsError ==
    /\ pc = "clone"
    /\ LET p == repository.fullPath
       IN  \/ /\ ~cancelled
              /\ local' = [local EXCEPT ![p] = Copy(repository.URL)]
              /\ IF initial
                 THEN CheckEvent(Noted(log, "clone", "ok"),
                                 GetEventFromRepo(p, Copy(repository.URL)))
                 ELSE /\ log' = Noted(log, "clone", "ok")
                      /\ pc' = "pull"
                      /\ err' = err
                      /\ NoDispatch
           \/ /\ local' = local
              /\ CheckDone(Noted(log, "clone", "fail"))
              /\ NoDispatch
    /\ UNCHANGED <<Repositories, InitialEvent, EventsCap, Events, Errors,
                   InitialDone, running, cancelled, tick, initial,
                   inInitial, passRepos, ret, adds, nReceived,
                   initialDoneSent, polled, errBound,
                   cfg, args, repos>>

\* checkRepo line 230, s.cloneRepo(repository), and what follows a clone
\* that succeeds: the head read when initial is set, else the pull.
\* cloneRepo calls git.PlainCloneContext(s.ctx, ...), which returns an
\* error when ctx is done before the clone is complete.
Clone ==
    /\ pc = "clone"
    /\ LET p == repository.fullPath
       IN  \/ /\ ~cancelled
              /\ local' = [local EXCEPT ![p] = Copy(repository.URL)]
              /\ IF initial
                 THEN CheckEvent(Noted(log, "clone", "ok"),
                                 GetEventFromRepo(p, Copy(repository.URL)))
                 ELSE /\ log' = Noted(log, "clone", "ok")
                      /\ pc' = "pull"
                      /\ err' = err
                      /\ NoDispatch
           \/ /\ local' = local
              /\ \E k \in ErrKinds : CheckFail(Noted(log, "clone", "fail"), k)
    /\ UNCHANGED <<Repositories, InitialEvent, EventsCap, Events, Errors,
                   InitialDone, running, cancelled, tick, initial,
                   inInitial, passRepos, ret, adds, nReceived,
                   initialDoneSent, polled, errBound,
                   cfg, args, repos>>

\* Pull with NoErrAlreadyUpToDate not told apart from the other errors: an
\* unchanged repository goes through the recovery.
Pull_UpToDateIsError ==
    /\ pc = "pull"
    /\ LET p == repository.fullPath
           c == local[p]
       IN  \/ /\ local' = [local EXCEPT ![p] = Copy(c.origin)]
              /\ CheckEvent(Noted(log, "pull", "changed"),
                            GetEventFromRepo(p, Copy(c.origin)))
           \/ /\ local' = local
              /\ log' = Noted(log, "pull", "unchanged")
              /\ pc' = "remove"
              /\ err' = err
              /\ NoDispatch
           \/ /\ local' = local
              /\ log' = Noted(log, "pull", "error")
              /\ pc' = "remove"
              /\ err' = err
              /\ NoDispatch
    /\ UNCHANGED <<Repositories, InitialEvent, EventsCap, Events, Errors,
                   InitialDone, running, cancelled, tick, initial,
                   inInitial, passRepos, ret, adds, nReceived,
                   initialDoneSent, polled, errBound,
                   cfg, args, repos>>

\* GetEventFromRepoChanges: wt.Pull and its three outcomes; nil (changes
\* were merged: the head is read), NoErrAlreadyUpToDate, any other error.
\* wt.Pull is not given s.ctx: its outcome does not depend on it.
Pull ==
    /\ pc = "pull"
    /\ LET p == repository.fullPath
           c == local[p]
       IN  \/ /\ local' = [local EXCEPT ![p] = Copy(c.origin)]
              /\ CheckEvent(Noted(log, "pull", "changed"),
                            GetEventFromRepo(p, Copy(c.origin)))
           \/ /\ local' = local
              /\ CheckDone(Noted(log, "pull", "unchanged"))
              /\ NoDispatch
           \/ /\ local' = local
              /\ log' = Noted(log, "pull", "error")
              /\ pc' = "remove"
              /\ err' = err
              /\ NoDispatch
    /\ UNCHANGED <<Repositories, InitialEvent, EventsCap, Events, Errors,
                   InitialDone, running, cancelled, tick, initial,
                   inInitial, passRepos, ret, adds, nReceived,
                   initialDoneSent, polled, errBound,
                   cfg, args, repos>>

\* checkRepo line 246: os.RemoveAll(repository.fullPath).  When it fails the
\* directory is left as it was or partly removed.
Remove ==
    /\ pc = "remove"
    /\ LET p == repository.fullPath
       IN  \/ /\ local' = [local EXCEPT ![p] = NoCopy]
              /\ log' = Noted(log, "removed", "ok")
              /\ pc' = "reclone"
              /\ err' = err
              /\ NoDispatch
           \/ /\ local' \in {local, [local EXCEPT ![p] = Corrupt]}
              /\ \E k \in ErrKinds : CheckFail(Noted(log, "removed", "fail"), k)
    /\ UNCHANGED <<Repositories, InitialEvent, EventsCap, Events, Errors,
                   InitialDone, running, cancelled, tick, initial,
                   inInitial, passRepos, ret, adds, nReceived,
                   initialDoneSent, polled, errBound,
                   cfg, args, repos>>

\* Reclone without the event of the recovery: checkRepo returns nil, nil
\* after the second clone.
Reclone_Silent ==
    /\ pc = "reclone"
    /\ LET p == repository.fullPath
       IN  \/ /\ ~cancelled
              /\ local' = [local EXCEPT ![p] = Copy(repository.URL)]
              /\ CheckDone(Noted(log, "reclone", "ok"))
              /\ NoDispatch
           \/ /\ local' = local
              /\ \E k \in ErrKinds : CheckFail(Noted(log, "reclone", "fail"), k)
    /\ UNCHANGED <<Repositories, InitialEvent, EventsCap, Events, Errors,
                   InitialDone, running, cancelled, tick, initial,
                   inInitial, passRepos, ret, adds, nReceived,
                   initialDoneSent, polled, errBound,
                   cfg, args, repos>>

\* checkRepo lines 250-254: the clone of the recovery and the event it
\* returns unconditionally.
Reclone ==
    /\ pc = "reclone"
    /\ LET p == repository.fullPath
       IN  \/ /\ ~cancelled
              /\ local' = [local EXCEPT ![p] = Copy(repository.URL)]
              /\ CheckEvent(Noted(log, "reclone", "ok"),
                            GetEventFromRepo(p, Copy(repository.URL)))
           \/ /\ local' = local
              /\ \E k \in ErrKinds : CheckFail(Noted(log, "reclone", "fail"), k)
    /\ UNCHANGED <<Repositories, InitialEvent, EventsCap, Events, Errors,
                   InitialDone, running, cancelled, tick, initial,
                   inInitial, passRepos, ret, adds, nReceived,
                   initialDoneSent, polled, errBound,
                   cfg, args, repos>>

\* ------------------------------------------------------------- daemon

\* InitialFail with the error of the initial pass handled as the loop
\* handles one: it is to be sent on s.Errors and Run goes on.
InitialFail_ToErrors ==
    /\ pc = "ret"
    /\ inInitial
    /\ err # Nil
    /\ ret' = ret
    /\ pc' = "errsend"
    /\ log' = <<>>
    /\ UNCHANGED <<Repositories, InitialEvent, EventsCap, Events, Errors,
                   InitialDone, running, cancelled, tick, local, initial,
                   inInitial, passRepos, err, sending, adds, nDispatched,
                   nReceived, initialDoneSent, polled, errBound,
                   cfg, args, repos>>

\* InitialFail with a return that gives up the events of the pass: those
\* not received yet are lost with it.
InitialFail_DropsEvents ==
    /\ pc = "ret"
    /\ inInitial
    /\ err # Nil
    /\ ret' = err
    /\ pc' = "done"
    /\ log' = <<>>
    /\ sending' = {}
    /\ Events' = <<>>
    /\ UNCHANGED <<Repositories, InitialEvent, EventsCap, Errors,
                   InitialDone, running, cancelled, tick, local, initial,
                   inInitial, passRepos, err, adds, nDispatched,
                   nReceived, initialDoneSent, polled, errBound,
                   cfg, args, repos>>

\* daemon lines 160-162: the initial pass failed, Run returns its error.
InitialFail ==
    /\ pc = "ret"
    /\ inInitial
    /\ err # Nil
    /\ ret' = err
    /\ pc' = "done"
    /\ log' = <<>>
    /\ UNCHANGED <<Repositories, InitialEvent, EventsCap, Events, Errors,
                   InitialDone, running, cancelled, tick, local, initial,
                   inInitial, passRepos, err, sending, adds, nDispatched,
                   nReceived, initialDoneSent, polled, errBound,
                   cfg, args, repos>>

\* SignalInitialDone with the check of the initial pass's error left out.
SignalInitialDone_Unchecked ==
    /\ pc = "ret"
    /\ inInitial
    /\ InitialDone < InitialDoneCap
    /\ InitialDone' = InitialDone + 1
    /\ initialDoneSent' = initialDoneSent + 1
    /\ inInitial' = FALSE
    /\ pc' = "select"
    /\ log' = <<>>
    /\ UNCHANGED <<Repositories, InitialEvent, EventsCap, Events, Errors,
                   running, cancelled, tick, local, initial, passRepos, err,
                   ret, sending, adds, nDispatched, nReceived, polled,
                   errBound,
                   cfg, args, repos>>

\* daemon line 163: s.InitialDone <- struct{}{}, which waits for room in
\* the channel's buffer, then the loop is entered.
SignalInitialDone ==
    /\ pc = "ret"
    /\ inInitial
    /\ err = Nil
    /\ InitialDone < InitialDoneCap
    /\ InitialDone' = InitialDone + 1
    /\ initialDoneSent' = initialDoneSent + 1
    /\ inInitial' = FALSE
    /\ pc' = "select"
    /\ log' = <<>>
    /\ UNCHANGED <<Repositories, InitialEvent, EventsCap, Events, Errors,
                   running, cancelled, tick, local, initial, passRepos, err,
                   ret, sending, adds, nDispatched, nReceived, polled,
                   errBound,
                   cfg, args, repos>>

\* SelectDone with the error of the context dropped: f returns nil and the
\* loop selects again.
SelectDone_Ignored ==
    /\ pc = "select"
    /\ cancelled
    /\ err' = Nil
    /\ ret' = ret
    /\ pc' = "select"
    /\ UNCHANGED <<Repositories, InitialEvent, EventsCap, Events, Errors,
                   InitialDone, running, cancelled, tick, local, initial,
                   inInitial, passRepos, log, sending, adds, nDispatched,
                   nReceived, initialDoneSent, polled, errBound,
                   cfg, args, repos>>

\* select case <-s.ctx.Done(): f returns ctx.Err() and Run returns it.
SelectDone ==
    /\ pc = "select"
    /\ cancelled
    /\ err' = Canceled
    /\ ret' = Canceled
    /\ pc' = "done"
    /\ UNCHANGED <<Repositories, InitialEvent, EventsCap, Events, Errors,
                   InitialDone, running, cancelled, tick, local, initial,
                   inInitial, passRepos, log, sending, adds, nDispatched,
                   nReceived, initialDoneSent, polled, errBound,
                   cfg, args, repos>>

\* SelectTick with a timer whose channel keeps its tick when the select
\* takes the case: every pass is followed by another one at once.
SelectTick_KeepsTick ==
    /\ pc = "select"
    /\ tick
    /\ tick' = tick
    /\ polled' = TRUE
    /\ checkRepos(FALSE, FALSE)
    /\ UNCHANGED <<Repositories, InitialEvent, EventsCap, Events, Errors,
                   InitialDone, running, cancelled, local, ret, sending,
                   adds, nDispatched, nReceived, initialDoneSent, errBound,
                   cfg, args, repos>>

\* select case <-t.C: the tick is taken and checkRepos(false) starts.  The
\* select picks any case that is ready, so this one also when ctx is done.
SelectTick ==
    /\ pc = "select"
    /\ tick
    /\ tick' = FALSE
    /\ polled' = TRUE
    /\ checkRepos(FALSE, FALSE)
    /\ UNCHANGED <<Repositories, InitialEvent, EventsCap, Events, Errors,
                   InitialDone, running, cancelled, local, ret, sending,
                   adds, nDispatched, nReceived, initialDoneSent, errBound,
                   cfg, args, repos>>

\* TickResult with the error of a pass returned by f, as the one of the
\* context is: Run returns it and nothing is sent on s.Errors.
TickResult_Returns ==
    /\ pc = "ret"
    /\ ~inInitial
    /\ IF err \in {Nil, "eof"}
       THEN /\ pc' = "select"
            /\ err' = Nil
            /\ ret' = ret
       ELSE /\ pc' = "done"
            /\ err' = err
            /\ ret' = err
    /\ log' = <<>>
    /\ UNCHANGED <<Repositories, InitialEvent, EventsCap, Events, Errors,
                   InitialDone, running, cancelled, tick, local, initial,
                   inInitial, passRepos, sending, adds,
                   nDispatched, nReceived, initialDoneSent, polled,
                   errBound,
                   cfg, args, repos>>

\* TickResult without the test of io.EOF: every error of a pass is to be
\* sent on s.Errors.
TickResult_PushesEOF ==
    /\ pc = "ret"
    /\ ~inInitial
    /\ IF err = Nil
       THEN /\ pc' = "select"
            /\ err' = Nil
       ELSE /\ pc' = "errsend"
            /\ err' = err
    /\ log' = <<>>
    /\ UNCHANGED <<Repositories, InitialEvent, EventsCap, Events, Errors,
                   InitialDone, running, cancelled, tick, local, initial,
                   inInitial, passRepos, ret, sending, adds,
                   nDispatched, nReceived, initialDoneSent, polled,
                   errBound,
                   cfg, args, repos>>

\* daemon lines 143-149 and 153: what f does with the result of the pass.
\* nil and errors that are io.EOF make f return nil; any other error is to
\* be sent on s.Errors.
TickResult ==
    /\ pc = "ret"
    /\ ~inInitial
    /\ IF err \in {Nil, "eof"}
       THEN /\ pc' = "select"
            /\ err' = Nil
       ELSE /\ pc' = "errsend"
            /\ err' = err
    /\ log' = <<>>
    /\ UNCHANGED <<Repositories, InitialEvent, EventsCap, Events, Errors,
                   InitialDone, running, cancelled, tick, local, initial,
                   inInitial, passRepos, ret, sending, adds,
                   nDispatched, nReceived, initialDoneSent, polled,
                   errBound,
                   cfg, args, repos>>

\* SendError with a send that does not wait: the error is dropped when the
\* buffer of Errors has no room.
SendError_Drops ==
    /\ pc = "errsend"
    /\ Errors' = IF Errors < ErrorsCap THEN Errors + 1 ELSE Errors
    /\ pc' = "select"
    /\ err' = Nil
    /\ UNCHANGED <<Repositories, InitialEvent, EventsCap, Events,
                   InitialDone, running, cancelled, tick, local, initial,
                   inInitial, passRepos, log, ret, sending, adds,
                   nDispatched, nReceived, initialDoneSent, polled,
                   errBound,
                   cfg, args, repos>>

\* daemon line 147: s.Errors <- err, which waits for room in the buffer.
SendError ==
    /\ pc = "errsend"
    /\ Errors < ErrorsCap
    /\ Errors' = Errors + 1
    /\ pc' = "select"
    /\ err' = Nil
    /\ UNCHANGED <<Repositories, InitialEvent, EventsCap, Events,
                   InitialDone, running, cancelled, tick, local, initial,
                   inInitial, passRepos, log, ret, sending, adds,
                   nDispatched, nReceived, initialDoneSent, polled,
                   errBound,
                   cfg, args, repos>>

\* ------------------------------------------------- the other goroutines

\* time.NewTicker(s.Interval): once made, the ticker puts a tick in its
\* channel of capacity 1 and drops it when one is there already.
Tick ==
    /\ pc # "idle"
    /\ ~tick
    /\ nDispatched + Len(Repositories) <= MaxEvents
    /\ Errors < errBound
    /\ tick' = TRUE
    /\ UNCHANGED <<Repositories, InitialEvent, EventsCap, Events, Errors,
                   InitialDone, running, cancelled, local, pc, initial,
                   inInitial, passRepos, log, err, ret, sending, adds,
                   nDispatched, nReceived, initialDoneSent, polled, errBound,
                   cfg, args, repos>>

\* Close: s.cf() and s.running = false.
Close ==
    /\ ~cancelled \/ running
    /\ cancelled' = TRUE
    /\ running' = FALSE
    /\ UNCHANGED <<Repositories, InitialEvent, EventsCap, Events, Errors,
                   InitialDone, tick, local, pc, initial, inInitial,
                   passRepos, log, err, ret, sending, adds, nDispatched,
                   nReceived, initialDoneSent, polled, errBound,
                   cfg, args, repos>>

\* Add with the pass in progress ranging over the session's list itself,
\* not over the slice it read when it started: the pass sees the append.
Add_SeenByPass(r) ==
    /\ r \notin { a.r : a \in adds }
    /\ IF running
       THEN /\ adds' = adds \cup
                  {[r |-> r, at |-> "blocked", started |-> pc # "idle"]}
            /\ Repositories' = Repositories
            /\ passRepos' = passRepos
       ELSE /\ adds' = adds \cup
                  {[r |-> r, at |-> "done", started |-> pc # "idle"]}
            /\ Repositories' = Append(Repositories, r)
            /\ passRepos' = IF pc \in {"idle", "done"} THEN passRepos
                            ELSE Append(passRepos, r)
    /\ UNCHANGED <<InitialEvent, EventsCap, Events, Errors, InitialDone,
                   running, cancelled, tick, local, pc, initial, inInitial,
                   log, err, ret, sending, nDispatched,
                   nReceived, initialDoneSent, polled, errBound,
                   cfg, args, repos>>

\* Add that puts the repository in front of the list.
Add_Prepends(r) ==
    /\ r \notin { a.r : a \in adds }
    /\ IF running
       THEN /\ adds' = adds \cup
                  {[r |-> r, at |-> "blocked", started |-> pc # "idle"]}
            /\ Repositories' = Repositories
       ELSE /\ adds' = adds \cup
                  {[r |-> r, at |-> "done", started |-> pc # "idle"]}
            /\ Repositories' = <<r>> \o Repositories
    /\ UNCHANGED <<InitialEvent, EventsCap, Events, Errors, InitialDone,
                   running, cancelled, tick, local, pc, initial, inInitial,
                   passRepos, log, err, ret, sending, nDispatched,
                   nReceived, initialDoneSent, polled, errBound,
                   cfg, args, repos>>

\* Add: the repository is hydrated; when running is set it is sent on
\* s.newRepos, which is nil, so the call waits for ever; otherwise it is
\* appended to s.Repositories.
Add(r) ==
    /\ r \notin { a.r : a \in adds }
    /\ IF running
       THEN /\ adds' = adds \cup
                  {[r |-> r, at |-> "blocked", started |-> pc # "idle"]}
            /\ Repositories' = Repositories
       ELSE /\ adds' = adds \cup
                  {[r |-> r, at |-> "done", started |-> pc # "idle"]}
            /\ Repositories' = Append(Repositories, r)
    /\ UNCHANGED <<InitialEvent, EventsCap, Events, Errors, InitialDone,
                   running, cancelled, tick, local, pc, initial, inInitial,
                   passRepos, log, err, ret, sending, nDispatched,
                   nReceived, initialDoneSent, polled, errBound,
                   cfg, args, repos>>

\* Deliver with a send that does not wait: the event is dropped when the
\* buffer of Events has no room.
Deliver_NonBlocking ==
    /\ \E e \in sending :
          /\ Events' = IF Len(Events) < EventsCap
                       THEN Append(Events, e) ELSE Events
          /\ sending' = sending \ {e}
    /\ UNCHANGED <<Repositories, InitialEvent, EventsCap, Errors,
                   InitialDone, running, cancelled, tick, local, pc,
                   initial, inInitial, passRepos, log, err, ret, adds,
                   nDispatched, nReceived, initialDoneSent, polled, errBound,
                   cfg, args, repos>>

\* A delivery goroutine's s.Events <- *event when the buffer has room.
Deliver ==
    /\ Len(Events) < EventsCap
    /\ \E e \in sending :
          /\ Events' = Append(Events, e)
          /\ sending' = sending \ {e}
    /\ UNCHANGED <<Repositories, InitialEvent, EventsCap, Errors,
                   InitialDone, running, cancelled, tick, local, pc,
                   initial, inInitial, passRepos, log, err, ret, adds,
                   nDispatched, nReceived, initialDoneSent, polled, errBound,
                   cfg, args, repos>>

\* A consumer's <-s.Events: the oldest buffered event or, the channel having
\* no buffer (New was given no repository), the event of a waiting sender.
ReceiveEvent ==
    /\ \/ /\ Events # <<>>
          /\ Events' = Tail(Events)
          /\ sending' = sending
       \/ /\ EventsCap = 0
          /\ Events' = Events
          /\ \E e \in sending : sending' = sending \ {e}
    /\ nReceived' = nReceived + 1
    /\ UNCHANGED <<Repositories, InitialEvent, EventsCap, Errors,
                   InitialDone, running, cancelled, tick, local, pc,
                   initial, inInitial, passRepos, log, err, ret, adds,
                   nDispatched, initialDoneSent, polled, errBound,
                   cfg, args, repos>>

\* A consumer's <-s.Errors.
ReceiveError ==
    /\ Errors > 0
    /\ Errors' = Errors - 1
    /\ UNCHANGED <<Repositories, InitialEvent, EventsCap, Events,
                   InitialDone, running, cancelled, tick, local, pc,
                   initial, inInitial, passRepos, log, err, ret, sending,
                   adds, nDispatched, nReceived, initialDoneSent, polled,
                   errBound,
                   cfg, args, repos>>

\* ------------------------------------------------------- specification

Next ==
    \/ Run
    \/ Open
    \/ Clone
    \/ Pull
    \/ Remove
    \/ Reclone
    \/ InitialFail
    \/ SignalInitialDone
    \/ SelectDone
    \/ SelectTick
    \/ TickResult
    \/ SendError
    \/ Tick
    \/ Close
    \/ \E r \in AddRepos : Add(r)
    \/ Deliver
    \/ ReceiveEvent
    \/ ReceiveError

Spec == Init /\ [][Next]_vars

\* ------------------------------------------------------- lifecycle

\* Run has been called and the loop has been entered.
Polling == ~inInitial /\ pc \notin {"idle", "done"}

\* The goroutine of Run leaves the select to start a pass.
PassStarts == pc = "select" /\ pc' \in {"open", "ret"}

\* --------------------------------------------------------------- C1

C2_InitialFailureReturned ==
    /\ [](inInitial =>
            /\ initialDoneSent = 0
            /\ InitialDone = 0
            /\ Errors = 0
            /\ ~polled)
    /\ [](inInitial /\ pc # "done" =>
            \A i \in DOMAIN log :
                log[i].err # Nil => pc = "ret" /\ err = log[i].err)
    /\ [](inInitial /\ pc = "done" => ret \in ErrKinds /\ ret = err)
    /\ [][inInitial /\ pc = "ret" /\ err # Nil /\ pc' # pc =>
            pc' = "done" /\ ret' = err /\ inInitial']_vars

\* Run has returned the error of a failed initial pass over two
\* repositories.
C2_Witness ==
    /\ pc = "done"
    /\ inInitial
    /\ ret = "err"
    /\ Len(passRepos) = 2

\* --------------------------------------------------------------- C3

C4_NoPassAfterClose ==
    [][cancelled => ~PassStarts]_vars

\* --------------------------------------------------------------- C6

RECURSIVE PassEvents(_)
PassEvents(l) ==
    IF l = <<>> THEN 0 ELSE Len(l[Len(l)].evs) + PassEvents(SubSeq(l, 1, Len(l) - 1))

C7_OneInitialEventEach ==
    inInitial /\ InitialEvent /\ pc = "ret" /\ err = Nil =>
        /\ Len(log) = Len(passRepos)
        /\ nDispatched = Len(passRepos)
        /\ \A i \in DOMAIN log :
              /\ Len(log[i].evs) = 1
              /\ log[i].evs[1].Path = passRepos[i].fullPath

\* An initial pass with InitialEvent has returned nil for one repository it
\* cloned and one it found on disk.
C7_Witness ==
    /\ inInitial
    /\ InitialEvent
    /\ pc = "ret"
    /\ err = Nil
    /\ nDispatched = 2
    /\ \E i \in DOMAIN log : log[i].clone = "ok"
    /\ \E i \in DOMAIN log : log[i].open = "ok"

\* --------------------------------------------------------------- C8

\* A repository is on disk at the path: PlainOpen opens it.
HasCopy(p) == local[p].kind \in {"ok", "nohead"}

C9_ChangedEvent ==
    Polling =>
        \A i \in DOMAIN log :
            log[i].open = "ok" /\ log[i].pull = "changed" =>
                /\ Len(log[i].evs) = 1
                /\ log[i].evs[1].Path = passRepos[i].fullPath
                /\ log[i].evs[1].URL = passRepos[i].URL

\* --------------------------------------------------------------- C10

\* C10: in a pass of the loop, a pull that reports Unchanged dispatches no
\* event, changes nothing on disk and sends nothing on Errors; the check
\* has returned nil without a removal or a second clone, and the loop is at
\* the next repository or, after the last one, has returned nil.
C10_UnchangedIsSilent ==
    /\ [](Polling =>
            \A i \in DOMAIN log :
                log[i].pull = "unchanged" =>
                    /\ log[i].evs = <<>>
                    /\ log[i].err = Nil
                    /\ log[i].removed = "-"
                    /\ log[i].reclone = "-"
                    /\ IF i < Len(passRepos)
                       THEN Len(log) > i \/ pc = "ret"
                       ELSE pc = "ret")
    /\ [][Polling /\ pc = "pull" /\ pc' # "pull"
            /\ log'[idx].pull = "unchanged" =>
               /\ UNCHANGED <<local, Errors, sending, nDispatched, ret>>
               /\ IF idx < Len(passRepos)
                  THEN pc' = "open" /\ Len(log') = idx + 1
                  ELSE pc' = "ret" /\ err' = Nil]_vars

\* In a pass of the loop the pull of the first of two repositories has
\* reported Unchanged and the second is being checked.
C10_Witness ==
    /\ Polling
    /\ Len(log) = 2
    /\ log[1].pull = "unchanged"
    /\ pc = "open"

\* --------------------------------------------------------------- C5

\* The steps of the goroutine that called Run.
Daemon ==
    \/ Open
    \/ Clone
    \/ Pull
    \/ Remove
    \/ Reclone
    \/ InitialFail
    \/ SignalInitialDone
    \/ SelectDone
    \/ SelectTick
    \/ TickResult
    \/ SendError

\* One repository that is on disk, and a timer that fires whatever waits in
\* Errors.
LiveInit ==
    /\ New
    /\ errBound = ErrorsCap + 1
    /\ ~InitialEvent
    /\ Repositories = <<Repo("u1", "p1")>>
    /\ local = [p \in Paths |-> IF p = "p1" THEN Copy("u1") ELSE NoCopy]

\* The goroutine of Run takes a step when it can: the backend's calls
\* return and a send goes through once the channel has room.  A select
\* picks among its ready cases at random, so the case of ctx.Done, ready at
\* every select once ctx is cancelled, is not passed over for ever.
\* Nothing is assumed of the callers, the consumers, the timer or the
\* delivery goroutines.
LiveSpec ==
    /\ LiveInit
    /\ [][Next]_vars
    /\ WF_vars(Daemon)
    /\ SF_vars(SelectDone)

\* Run has returned ctx.Err().
ReturnedCanceled == pc = "done" /\ ret = Canceled

\* The goroutine of Run waits in its send on Errors, which is full.
BlockedOnErrors == pc = "errsend" /\ Errors = ErrorsCap

\* C5 as claimed: from a state of the loop in which ctx is cancelled, Run
\* returns ctx.Err(), whatever the consumers do.
C5_CloseEndsRun ==
    (Polling /\ cancelled) ~> ReturnedCanceled

\* C5 as amended: from a state of the loop in which ctx is cancelled, Run
\* returns ctx.Err(), unless the goroutine stays for ever in its send on an
\* Errors that holds 16 errors and that no consumer receives from.
C5_CloseEndsRunUnlessBlocked ==
    \/ <>[]BlockedOnErrors
    \/ ((Polling /\ cancelled) ~> ReturnedCanceled)

\* Run has returned ctx.Err() from the loop while an event nobody received
\* is still held by its delivery goroutine or by Events.
C5_Witness ==
    /\ ReturnedCanceled
    /\ polled
    /\ nReceived = 0
    /\ nDispatched > 0

\* --------------------------------------------------------------- C11

\* One repository given to New (Events has room for one event), on disk;
\* the client may add a second one, at another path.
DeliveryInit ==
    /\ New
    /\ errBound = MaxErrors
    /\ ~InitialEvent
    /\ Repositories = <<Repo("u1", "p1")>>
    /\ local = [p \in Paths |-> IF p = "p1" THEN Copy("u1") ELSE NoCopy]

\* The delivery goroutines run, and a consumer keeps receiving from Events.
\* Nothing is assumed of the goroutine of Run, the timer or the callers.
DeliverySpec ==
    /\ DeliveryInit
    /\ [][Next]_vars
    /\ WF_vars(Deliver)
    /\ WF_vars(ReceiveEvent)

\* The events of a session are numbered in the order of their dispatch;
\* the timer being bounded, DeliverySpec dispatches no more than this.
DeliveryEvents == 1..(MaxEvents + 3)

\* The event is held by its delivery goroutine or by the buffer of Events.
InFlight(e) == e \in sending \/ \E i \in DOMAIN Events : Events[i] = e

\* The same, of the k-th event dispatched.
InFlightNo(k) ==
    \/ \E e \in sending : e.n = k
    \/ \E i \in DOMAIN Events : Events[i].n = k

\* C11: in a pass of the loop, two repositories at different paths whose
\* pulls both report Changed have had one event each dispatched; a
\* dispatched event leaves its delivery goroutine and Events only by being
\* received; and, the delivery goroutines running and a consumer receiving,
\* every dispatched event is eventually received.
C11_BothEventsReceived ==
    /\ [](Polling =>
            \A i, j \in DOMAIN log :
                /\ i < j
                /\ passRepos[i].fullPath # passRepos[j].fullPath
                /\ log[i].pull = "changed"
                /\ log[j].pull = "changed"
                => /\ Len(log[i].evs) = 1
                   /\ Len(log[j].evs) = 1
                   /\ log[i].evs[1].Path = passRepos[i].fullPath
                   /\ log[j].evs[1].Path = passRepos[j].fullPath
                   /\ log[i].evs[1] # log[j].evs[1])
    /\ [](nDispatched \in DeliveryEvents \cup {0})
    /\ [](nDispatched = nReceived + Cardinality(sending) + Len(Events))
    /\ \A k \in DeliveryEvents : InFlightNo(k) ~> ~InFlightNo(k)

\* A pass of the loop found changes in two repositories, and the event of
\* the second one was received while the event of the first one still
\* waits in its delivery goroutine.
C11_Witness ==
    /\ Polling
    /\ pc = "ret"
    /\ Len(log) = 2
    /\ log[1].pull = "changed"
    /\ log[2].pull = "changed"
    /\ passRepos[1].fullPath # passRepos[2].fullPath
    /\ log[1].evs[1] \in sending
    /\ ~InFlight(log[2].evs[1])
    /\ nReceived = 1

\* --------------------------------------------------------------- C12

\* C12: in a pass of the loop, a pull that reports an error is followed by
\* the removal of the repository's path, with nothing dispatched or sent on
\* Errors; once the path is removed nothing is left at it and the next step
\* is the clone; when that clone succeeds one event is dispatched, with the
\* repository's path and URL, a copy is at the path again, nothing is sent
\* on Errors and the check has returned without error.
C12_RecoveryReclones ==
    /\ [](Polling =>
            \A i \in DOMAIN log :
                /\ log[i].pull = "error" =>
                      \/ log[i].removed # "-"
                      \/ i = Len(log) /\ pc = "remove" /\ log[i].evs = <<>>
                /\ log[i].pull = "error" /\ log[i].reclone = "ok" =>
                      /\ log[i].removed = "ok"
                      /\ log[i].err = Nil
                      /\ Len(log[i].evs) = 1
                      /\ log[i].evs[1].Path = passRepos[i].fullPath
                      /\ log[i].evs[1].URL = passRepos[i].URL)
    /\ [][Polling /\ pc = "pull" /\ pc' = "remove" =>
            UNCHANGED <<local, Errors, sending, nDispatched>>]_vars
    /\ [][Polling /\ pc = "remove" /\ pc' = "reclone" =>
            /\ local'[repository.fullPath] = NoCopy
            /\ UNCHANGED <<Errors, sending, nDispatched>>]_vars
    /\ [][Polling /\ pc = "reclone" /\ log'[idx].reclone = "ok" =>
            /\ local'[repository.fullPath] = Copy(repository.URL)
            /\ nDispatched' = nDispatched + 1
            /\ Errors' = Errors
            /\ pc' \in {"open", "ret"}
            /\ pc' = "ret" => err' = Nil]_vars

\* In a pass of the loop a pull failed, the path was removed, the clone
\* succeeded and its event was dispatched; Errors is empty.
C12_Witness ==
    /\ Polling
    /\ Errors = 0
    /\ \E i \in DOMAIN log :
          /\ log[i].pull = "error"
          /\ log[i].reclone = "ok"
          /\ Len(log[i].evs) = 1
    /\ HasCopy(passRepos[1].fullPath)

\* --------------------------------------------------------------- C13

\* The repository is in the session's list.
Registered(r) == \E i \in DOMAIN Repositories : Repositories[i] = r

\* The call Add(r) waits in its send on newRepos.
Blocked(r) == \E a \in adds : a.r = r /\ a.at = "blocked"

\* C13: an Add called while the session is running eventually returns, the
\* repository then being in the session's list (from where a later pass
\* would check it).
C13_AddWhileRunningCompletes ==
    \A r \in AddRepos : Blocked(r) ~> (~Blocked(r) /\ Registered(r))

\* --------------------------------------------------------------- C14

\* Add(r) was called after Run.
AddedLate(r) == \E a \in adds : a.r = r /\ a.started

\* The repository is in the list the current pass ranges over.
InPass(r) == \E i \in DOMAIN passRepos : passRepos[i] = r

\* The goroutine of Run is in a call of the backend or of os.RemoveAll.
InBackend == pc \in {"open", "clone", "pull", "remove", "reclone"}

\* C14: the step of an Add called after Run changes nothing on disk and
\* nothing of the pass in progress; a repository added after Run comes into
\* the list a pass ranges over only when the goroutine of Run takes a tick,
\* in a step that follows the Add; the backend is called for the
\* repositories of that list only, and only their paths change on disk.
C14_AddedCheckedAtLaterTick ==
    /\ [][\A r \in AddRepos :
            ~(\E a \in adds : a.r = r) /\ AddedLate(r)' =>
                UNCHANGED <<local, pc, passRepos, log, tick, err, sending,
                            nDispatched, Errors, polled>>]_vars
    /\ [][\A r \in AddRepos :
            AddedLate(r)' /\ ~InPass(r) /\ InPass(r)' =>
                /\ AddedLate(r)
                /\ Registered(r)
                /\ pc = "select"
                /\ tick
                /\ ~tick'
                /\ pc' = "open"]_vars
    /\ [](InBackend => idx \in DOMAIN passRepos)
    /\ [][local' # local =>
            /\ InBackend
            /\ \A p \in Paths :
                  p # repository.fullPath => local'[p] = local[p]]_vars

\* A repository added after Run (and after Close, so that Add returned) is
\* being cloned by a pass of the loop.
C14_Witness ==
    /\ Polling
    /\ pc = "clone"
    /\ AddedLate(repository)
    /\ repository \in AddRepos

\* --------------------------------------------------------------- C15

\* IsRunning: return s.running.
IsRunning == running

\* C15: IsRunning is false before Run is called and true ever after,
\* whatever calls of Close or Add there were.
C15_RunningOnceRun ==
    IsRunning <=> pc # "idle"

\* --------------------------------------------------------------- C17

\* C17: every step leaves each entry of the session's list at its position
\* with its URL and its fullPath, and adds at most one entry, at the end.
C17_ListAppendOnly ==
    [][/\ Len(Repositories') \in {Len(Repositories), Len(Repositories) + 1}
       /\ \A i \in DOMAIN Repositories :
             /\ Repositories'[i] = Repositories[i]
             /\ Repositories'[i].fullPath = Repositories[i].fullPath]_vars

\* After an Add and a Close, a pass of the loop has failed in the recovery
\* of the first repository, whose path was removed: the list holds it still.
C17_Witness ==
    /\ Polling
    /\ cancelled
    /\ pc = "ret"
    /\ Len(log) = 1
    /\ log[1].removed = "ok"
    /\ log[1].reclone = "fail"
    /\ Len(Repositories) = 2
    /\ Repositories[1] = passRepos[1]
    /\ \E a \in adds : a.at = "done" /\ Repositories[2] = a.r

\* --------------------------------------------------------------- C20

\* A pass of the loop has returned.
PassReturned == Polling /\ pc = "ret"

\* The passes range over two repositories at different paths.
TwoRepositories ==
    /\ Len(passRepos) = 2
    /\ passRepos[1].fullPath # passRepos[2].fullPath

\* C20: when the passes of the loop go on for ever and the check of the
\* first of two repositories fails in every one of them, the second
\* repository is checked again and again.
C20_OthersStillChecked ==
    /\ []<>PassReturned
    /\ <>[]TwoRepositories
    /\ [](PassReturned => log[1].err # Nil)
    => []<>(Polling /\ InBackend /\ idx = 2)

\* ------------------------------------------- locators and their directories

\* Strings are sequences of these: the text "http", a letter that is not a
\* hexadecimal digit, and the characters : / % #.  No two-digit hexadecimal
\* number follows a %, so every % is an escape url.Parse rejects.
Alphabet == {"http", "x", ":", "/", "%", "#"}

Letters == {"http", "x"}

\* The strings of at most n characters.
RECURSIVE StringsUpTo(_)
StringsUpTo(n) ==
    IF n = 0 THEN {<<>>}
    ELSE LET S == StringsUpTo(n - 1)
         IN  S \cup { Append(t, c) : t \in {u \in S : Len(u) = n - 1},
                                     c \in Alphabet }

\* strings.Index and strings.LastIndex for a one-character separator, from 1;
\* 0 when it does not occur.
Index(str, c) ==
    IF \E i \in 1..Len(str) : str[i] = c
    THEN CHOOSE i \in 1..Len(str) :
            str[i] = c /\ \A j \in 1..(i - 1) : str[j] # c
    ELSE 0

LastIndex(str, c) ==
    IF \E i \in 1..Len(str) : str[i] = c
    THEN CHOOSE i \in 1..Len(str) :
            str[i] = c /\ \A j \in (i + 1)..Len(str) : str[j] # c
    ELSE 0

\* strings.Contains, strings.HasPrefix
Contains(str, c) == Index(str, c) # 0

HasPrefix(str, pre) ==
    Len(str) >= Len(pre) /\ SubSeq(str, 1, Len(pre)) = pre

\* strings.Split(str, c): the pieces between all the occurrences of c.
RECURSIVE Split(_, _)
Split(str, c) ==
    LET i == Index(str, c)
    IN  IF i = 0 THEN <<str>>
        ELSE <<SubSeq(str, 1, i - 1)>>
                \o Split(SubSeq(str, i + 1, Len(str)), c)

\* The part of str before the first c (all of it when there is none), and
\* the part from the first c on, c included (nothing when there is none):
\* strings.Cut and its like.
Before(str, c) ==
    IF Contains(str, c) THEN SubSeq(str, 1, Index(str, c) - 1) ELSE str

After(str, c) ==
    IF Contains(str, c) THEN SubSeq(str, Index(str, c) + 1, Len(str))
    ELSE <<>>

From(str, c) ==
    IF Contains(str, c) THEN SubSeq(str, Index(str, c), Len(str)) ELSE <<>>

\* filepath.Base: "." for the empty path; trailing slashes are dropped, then
\* what follows the last slash is returned, "/" when nothing is left.
RECURSIVE TrimSlashes(_)
TrimSlashes(path) ==
    IF path # <<>> /\ path[Len(path)] = "/"
    THEN TrimSlashes(SubSeq(path, 1, Len(path) - 1))
    ELSE path

LastElement(t) ==
    IF t = <<>> THEN <<"/">>
    ELSE SubSeq(t, LastIndex(t, "/") + 1, Len(t))

Base(path) ==
    IF path = <<>> THEN <<".">> ELSE LastElement(TrimSlashes(path))

\* url.Parse's getScheme: the letters before the first character that is
\* not one form the scheme when that character is a colon; a colon in
\* front is an error; otherwise there is no scheme.
FirstNonLetter(raw) ==
    IF \A i \in 1..Len(raw) : raw[i] \in Letters THEN 0
    ELSE CHOOSE i \in 1..Len(raw) :
            raw[i] \notin Letters /\ \A j \in 1..(i - 1) : raw[j] \in Letters

SchemeAt(raw, i) ==
    IF i = 0 \/ raw[i] # ":"
    THEN [err |-> FALSE, scheme |-> <<>>, rest |-> raw]
    ELSE IF i = 1
    THEN [err |-> TRUE, scheme |-> <<>>, rest |-> raw]
    ELSE [err |-> FALSE, scheme |-> SubSeq(raw, 1, i - 1),
          rest |-> SubSeq(raw, i + 1, Len(raw))]

getScheme(raw) == SchemeAt(raw, FirstNonLetter(raw))

\* url.Parse's parseHost: what follows the last colon of the host must be
\* digits (there are none here), and the host must unescape.
parseHostFails(host) ==
    \/ LastIndex(host, ":") \notin {0, Len(host)}
    \/ Contains(host, "%")

\* What url.Parse returns, as far as GetRepoDirectory uses it: whether it
\* is an error, and the Path of the URL.
Fail == [err |-> TRUE, Path |-> <<>>]

PathIs(path) ==
    IF Contains(path, "%") THEN Fail ELSE [err |-> FALSE, Path |-> path]

\* After a leading // comes the authority, up to the next slash; the path
\* is what follows it.
parseAuthority(r2) ==
    IF parseHostFails(Before(r2, "/")) THEN Fail ELSE PathIs(From(r2, "/"))

\* url.parse after the scheme: with a scheme and no leading slash the rest
\* is opaque and the path empty.  Without a scheme the first segment may
\* not hold a colon.  The authority is parsed after // (not after /// when
\* there is no scheme).  The path must unescape.
parseRest(scheme, rest) ==
    IF ~HasPrefix(rest, <<"/">>) /\ scheme # <<>>
    THEN [err |-> FALSE, Path |-> <<>>]
    ELSE IF ~HasPrefix(rest, <<"/">>) /\ Contains(Before(rest, "/"), ":")
    THEN Fail
    ELSE IF /\ HasPrefix(rest, <<"/", "/">>)
            /\ scheme # <<>> \/ ~HasPrefix(rest, <<"/", "/", "/">>)
    THEN parseAuthority(SubSeq(rest, 3, Len(rest)))
    ELSE PathIs(rest)

parseScheme(g) == IF g.err THEN Fail ELSE parseRest(g.scheme, g.rest)

\* The fragment, which is what follows the first #, must unescape too.
setFragment(u, frag) == IF ~u.err /\ Contains(frag, "%") THEN Fail ELSE u

\* url.Parse
Parse(rawURL) ==
    setFragment(parseScheme(getScheme(Before(rawURL, "#"))),
                After(rawURL, "#"))

\* GetRepoDirectory: for a locator that starts with "http", the base of
\* the URL's escaped path (which, no escape being valid here, is the
\* path); otherwise the locator is split at every colon and the second
\* piece is taken when there are exactly two, the first one if not.
Piece(path) == IF Len(path) = 2 THEN path[2] ELSE path[1]

BaseOf(u) ==
    IF u.err THEN [err |-> TRUE, dir |-> <<>>]
    ELSE [err |-> FALSE, dir |-> Base(u.Path)]

GetRepoDirectory(repo) ==
    IF HasPrefix(repo, <<"http">>) THEN BaseOf(Parse(repo))
    ELSE BaseOf(Parse(Piece(Split(repo, ":"))))

\* ------------------------------------------------ setting the session up

\* The longest string tried as a repository argument, the prefix http://x
\* not counted.
MaxLen == 3

\* The session's root directory.
Root == <<"root">>

Master == <<"master">>

\* filepath.Join(root, directory) for a directory that is a base name: the
\* result is cleaned, so "." and "/" add nothing to the root.
Join(root, directory) ==
    IF directory \in {<<".">>, <<"/">>} THEN root
    ELSE root \o <<"/">> \o directory

\* A Repository as a caller makes it, and once hydrated.
Repository(url, branch, directory) ==
    [URL |-> url, Branch |-> branch, Directory |-> directory]

Hydrated(r, fullPath) ==
    [URL |-> r.URL, Branch |-> r.Branch, Directory |-> r.Directory,
     fullPath |-> fullPath]

\* hydrate's use of what GetRepoDirectory returns, with the error dropped:
\* the repository gets the root as its path.
Located_DropsError(root, r, d) ==
    [err |-> FALSE, r |-> Hydrated(r, Join(root, d.dir))]

\* hydrate's use of what GetRepoDirectory returns: its error, or the
\* repository with its path under the root.
Located(root, r, d) ==
    IF d.err THEN [err |-> TRUE, r |-> r]
    ELSE [err |-> FALSE, r |-> Hydrated(r, Join(root, d.dir))]

\* hydrate: the directory is r.Directory or, when that is empty, the one
\* GetRepoDirectory derives from the URL, whose error is returned.
hydrate(root, r) ==
    IF r.Directory = <<>>
    THEN Located(root, r, GetRepoDirectory(r.URL))
    ELSE [err |-> FALSE, r |-> Hydrated(r, Join(root, r.Directory))]

\* hydrateRepos: every repository hydrated, or nil and the first error.
Collected(hs) ==
    IF \E i \in DOMAIN hs : hs[i].err
    THEN [err |-> TRUE, out |-> <<>>]
    ELSE [err |-> FALSE, out |-> [i \in DOMAIN hs |-> hs[i].r]]

hydrateRepos(root, in) ==
    Collected([i \in DOMAIN in |-> hydrate(root, in[i])])

\* MakeRepositoryList: a string that contains # is split at every #; the
\* URL is the first piece and the branch the second one unless it is empty.
MakeRepositoryList(strs) ==
    [i \in DOMAIN strs |->
        LET repo == strs[i]
            path == Split(repo, "#")
        IN  IF Contains(repo, "#")
            THEN Repository(path[1],
                            IF Len(path[2]) > 0 THEN path[2] ELSE Master,
                            <<>>)
            ELSE Repository(repo, Master, <<>>)]

\* The strings tried as repository arguments: the short ones, and the
\* short ones after http://x and after x://x:/ (a scheme, a host and an
\* empty port).
ArgStrings ==
    LET S == StringsUpTo(MaxLen)
    IN  S \cup { <<"http", ":", "/", "/", "x">> \o t : t \in S }
          \cup { <<"x", ":", "/", "/", "x", ":", "/">> \o t : t \in S }

\* The argument lists: one string, or one after a well-formed one.
ArgLists ==
    { <<a>> : a \in ArgStrings }
        \cup { <<<<"x", ":", "x", "/", "http">>, a>> : a \in ArgStrings }

\* The repositories Add is called with: one that hydrates and one whose URL
\* url.Parse rejects.
ConfigAdds ==
    { Repository(<<"x", ":", "x">>, Master, <<>>),
      Repository(<<"x", "%">>, Master, <<>>) }

\* Before New: there is no session yet.
ConfigInit ==
    /\ cfg = "args"
    /\ args \in ArgLists
    /\ repos = <<>>
    /\ Repositories = <<>>
    /\ InitialEvent = FALSE
    /\ EventsCap = 0
    /\ Events = <<>>
    /\ Errors = 0
    /\ InitialDone = 0
    /\ running = FALSE
    /\ cancelled = FALSE
    /\ tick = FALSE
    /\ local = [p \in Paths |-> NoCopy]
    /\ pc = "idle"
    /\ initial = FALSE
    /\ inInitial = FALSE
    /\ passRepos = <<>>
    /\ log = <<>>
    /\ err = Nil
    /\ ret = Nil
    /\ sending = {}
    /\ adds = {}
    /\ nDispatched = 0
    /\ nReceived = 0
    /\ initialDoneSent = 0
    /\ polled = FALSE
    /\ errBound = MaxErrors

\* main.go: the list New is given is MakeRepositoryList of the arguments.
MakeList ==
    /\ cfg = "args"
    /\ repos' = MakeRepositoryList(args)
    /\ cfg' = "list"
    /\ UNCHANGED <<Repositories, InitialEvent, EventsCap, Events, Errors,
                   InitialDone, running, cancelled, tick, local, pc,
                   initial, inInitial, passRepos, log, err, ret, sending,
                   adds, nDispatched, nReceived, initialDoneSent, polled,
                   errBound, args>>

\* New: hydrateRepos, then the session with its list and its channels; nil
\* and the error when a repository does not hydrate.
NewCall ==
    /\ cfg = "list"
    /\ LET h == hydrateRepos(Root, repos)
       IN  IF h.err
           THEN /\ cfg' = "failed"
                /\ UNCHANGED <<Repositories, EventsCap>>
           ELSE /\ cfg' = "made"
                /\ Repositories' = h.out
                /\ EventsCap' = Len(repos)
    /\ UNCHANGED <<InitialEvent, Events, Errors,
                   InitialDone, running, cancelled, tick, local, pc,
                   initial, inInitial, passRepos, log, err, ret, sending,
                   adds, nDispatched, nReceived, initialDoneSent, polled,
                   errBound, args, repos>>

\* Add as a caller calls it: hydrate first, whose error is returned before
\* anything is sent or appended.
AddCall(r) ==
    /\ cfg = "made"
    /\ LET h == hydrate(Root, r)
       IN  IF h.err
           THEN /\ r \notin { a.r : a \in adds }
                /\ adds' = adds \cup
                      {[r |-> r, at |-> "error", started |-> pc # "idle"]}
                /\ UNCHANGED <<Repositories, InitialEvent, EventsCap,
                               Events, Errors, InitialDone, running,
                               cancelled, tick, local, pc, initial,
                               inInitial, passRepos, log, err, ret, sending,
                               nDispatched, nReceived, initialDoneSent,
                               polled, errBound, cfg, args, repos>>
           ELSE Add(h.r)

\* The calls that set a session up and register repositories; of Run only
\* its first step is taken here.
ConfigNext ==
    \/ MakeList
    \/ NewCall
    \/ \E r \in ConfigAdds : AddCall(r)
    \/ cfg = "made" /\ Run
    \/ cfg = "made" /\ Close

ConfigSpec == ConfigInit /\ [][ConfigNext]_vars

\* ------------------------------------------------------------------ C16

\* hydrate fails on r: r names no directory and GetRepoDirectory returns an
\* error for its URL.
Malformed(r) == r.Directory = <<>> /\ GetRepoDirectory(r.URL).err

\* The calls of Add that wait in s.newRepos <- r.
Senders == { a \in adds : a.at = "blocked" }

\* C16: a repository that does not hydrate fails New and Add at once and
\* never gets into the session.  New, given a list with such a repository,
\* fails and makes no session: nothing is listed, nothing runs, nothing can
\* be added.  Add, called with such a repository, returns the error with
\* the session's list and the senders on newRepos as they were.  No
\* repository of the list is one that does not hydrate.
C16_MalformedRejected ==
    /\ [][cfg = "list" /\ cfg' # "list"
             /\ (\E i \in DOMAIN repos : Malformed(repos[i]))
          => cfg' = "failed" /\ UNCHANGED <<Repositories, running, pc>>]_vars
    /\ [](cfg = "failed"
             => Repositories = <<>> /\ ~running /\ pc = "idle" /\ adds = {})
    /\ [][\A r \in ConfigAdds :
             Malformed(r) /\ r \notin { a.r : a \in adds }
                          /\ r \in { a.r : a \in adds' }
             => UNCHANGED <<Repositories, Senders, passRepos>>]_vars
    /\ [](\A a \in adds : Malformed(a.r) => a.at = "error")
    /\ [](\A i \in DOMAIN Repositories : ~Malformed(Repositories[i]))

\* Add has returned its error for a repository that does not hydrate,
\* called on a running session that lists a repository.
C16_Witness ==
    /\ running
    /\ Repositories # <<>>
    /\ \E a \in adds : Malformed(a.r) /\ a.at = "error" /\ a.started

\* ------------------------------------------------------------------ C18

\* C18: the directory of every repository of a new session is the last
\* element of a path of its locator: of the URL's path when the locator
\* starts with "http"; otherwise of the part after the first colon when
\* there is a colon, however many there are, and of the whole locator when
\* there is none.
C18_DirectoryIsLastSegment ==
    cfg = "made" =>
        \A i \in DOMAIN repos :
            LET u    == repos[i].URL
                part == IF ~HasPrefix(u, <<"http">>) /\ Contains(u, ":")
                        THEN After(u, ":") ELSE u
            IN  Repositories[i].fullPath = Join(Root, Base(Parse(part).Path))

\* ------------------------------------------------------------------ C19

\* C19: MakeRepositoryList gives one Repository for each string, in the
\* order of the strings; its URL is what stands before the first # of the
\* string and its branch all that follows that #, or "master" when there
\* is no # or nothing follows it.
C19_SplitAtFirstHash ==
    cfg # "args" =>
        /\ Len(repos) = Len(args)
        /\ \A i \in DOMAIN args :
              /\ repos[i].URL = Before(args[i], "#")
              /\ repos[i].Branch = IF After(args[i], "#") = <<>> THEN Master
                                   ELSE After(args[i], "#")

\* ------------------------------------------------------------------ C21

\* The events the checks of the pass in progress returned.
LoggedEvents ==
    UNION { { log[i].evs[k] : k \in DOMAIN log[i].evs } : i \in DOMAIN log }

\* C21: a check that returns an error ends its pass: it is the check of
\* the last repository the pass got to, checkRepos has returned its error,
\* and no repository is opened, cloned or pulled before the pass is over.
\* The step on which the check fails takes back none of the events the
\* pass has dispatched, all of which were handed to delivery goroutines.
\* The pass that follows starts at the first repository of the list.
C21_FailFast ==
    /\ [](\A i \in DOMAIN log :
             log[i].err # Nil => i = Len(log) /\ pc = "ret" /\ err = log[i].err)
    /\ [][pc = "ret" /\ err # Nil => log' \in {log, <<>>} /\ ~InBackend']_vars
    /\ [][pc # "ret" /\ pc' = "ret" /\ err' # Nil
             => UNCHANGED <<sending, Events, nDispatched>>]_vars
    /\ [](\A e \in LoggedEvents : e.n \in 1..nDispatched)
    /\ [][PassStarts =>
             /\ passRepos' = Repositories
             /\ Repositories # <<>> =>
                   pc' = "open" /\ log' = <<NewEntry>>]_vars

\* A pass of the loop over two repositories has failed at the first one,
\* and a tick waits for the next pass.
C21_Witness ==
    /\ Polling
    /\ pc = "ret"
    /\ err # Nil
    /\ Len(log) = 1
    /\ Len(passRepos) = 2
    /\ tick

\* ------------------------------------------------------------------ C22

\* The events that were dispatched and not yet received.
Held == sending \cup { Events[i] : i \in DOMAIN Events }

\* C22: the events of one repository are received in the order in which
\* they were produced; stated for a session that watches one repository:
\* when an event is received, no event produced before it is still to be
\* received.
C22_OrderPerRepository ==
    [][Len(Repositories) = 1 /\ nReceived' # nReceived =>
          \A e \in Held \ Held' : \A e0 \in Held' : e0.n > e.n]_vars

\* ------------------------------------------------------------------ C23

\* The backend call the pass is in may return an event: a pull, a clone
\* with ctx not done (the one of the recovery, or any with initial set), a
\* head read with initial set.
MayProduce ==
    \/ pc = "pull"
    \/ pc = "reclone" /\ ~cancelled
    \/ pc = "clone" /\ initial /\ ~cancelled
    \/ pc = "open" /\ initial /\ local[repository.fullPath].kind = "ok"

\* A step of the goroutine of Run that dispatches an event.
EventStep == Daemon /\ nDispatched' # nDispatched

\* Any session New makes; the goroutine of Run takes a step when it can.
\* Nothing is assumed of the callers, the consumers, the timer or the
\* delivery goroutines.
PassSpec == Init /\ [][Next]_vars /\ WF_vars(Daemon)

\* C23: a consumer of Events that is slow or absent does not stall the
\* goroutine of Run.  While a pass is in progress that goroutine always
\* has a step to take, and the step that dispatches an event when the
\* backend call it is in may return one, whatever Events and the delivery
\* goroutines hold;
\* an event is dispatched by giving it to a new delivery goroutine, Events
\* being left as it is; and every pass in progress comes to its end, no
\* step of a consumer or of a delivery goroutine being assumed.
C23_PassNeverWaitsForEvents ==
    /\ [](InBackend => ENABLED Daemon)
    /\ [](MayProduce => ENABLED EventStep)
    /\ [][nDispatched' # nDispatched =>
             /\ nDispatched' = nDispatched + 1
             /\ Events' = Events
             /\ Cardinality(sending') = Cardinality(sending) + 1
             /\ sending \subseteq sending']_vars
    /\ (InBackend ~> pc = "ret")

\* A pass of the loop has come to its end with Events full, an event held
\* by its delivery goroutine and nothing received so far.
C23_Witness ==
    /\ Polling
    /\ pc = "ret"
    /\ EventsCap > 0
    /\ Len(Events) = EventsCap
    /\ sending # {}
    /\ nReceived = 0

\* ------------------------------------------------------------------ C24

\* C24: with 16 errors unread in Errors, the goroutine of Run that has an
\* error of a pass to send waits in that send: it has no step to take, so
\* it takes no tick, no registration and no cancellation, and Run does not
\* return; it stays there until a consumer receives an error, after which
\* the send goes through.
C24_FullErrorsBlocksLoop ==
    /\ [](BlockedOnErrors => ~ENABLED Daemon)
    /\ [][BlockedOnErrors =>
             /\ pc' = "errsend"
             /\ UNCHANGED <<passRepos, log, err, ret>>
             /\ Senders \subseteq Senders'
             /\ tick => tick'
             /\ Errors' # Errors => Errors' = Errors - 1]_vars
    /\ [](pc = "errsend" /\ Errors < ErrorsCap => ENABLED SendError)

\* The goroutine of Run waits in its send on a full Errors while a tick
\* and the cancellation are both there to be taken.
C24_Witness ==
    /\ BlockedOnErrors
    /\ tick
    /\ cancelled

\* ------------------------------------------------------------------ C25

\* The goroutine of Run is alive: Run was called and has not returned.
Alive == pc \notin {"idle", "done"}

\* C25: while the goroutine of Run is alive no step of a caller changes
\* the session's list, and running is written by that goroutine only, that
\* is by the step in which Run starts.
C25_SingleWriter ==
    [][/\ Alive => Repositories' = Repositories
       /\ running' # running => pc = "idle" /\ pc' # "idle"]_vars

\* ------------------------------------------------------------------ C26

\* C26: a clone or a pull that ctx is cancelled during does not run to its
\* completion: with ctx done, the step on which the clone or the pull the
\* pass is in returns is one on which it returns an error.
C26_CancelInterrupts ==
    [][cancelled /\ pc \in {"clone", "pull", "reclone"} /\ pc' # pc =>
          log'[Len(log)][pc] \in {"fail", "error"}]_vars

\* ------------------------------------------------------------------ C27

\* The check of the i-th repository of the pass in progress has returned.
Checked(i) == i < Len(log) \/ (i = Len(log) /\ pc = "ret")

\* C27: in a pass of the loop, a repository that was not on disk and whose
\* clone succeeded, and whose check returned no error, has one event
\* dispatched for it in that pass.
C27_FreshCloneIsEvent ==
    Polling =>
        \A i \in DOMAIN log :
            log[i].clone = "ok" /\ Checked(i) /\ log[i].err = Nil
                => Len(log[i].evs) = 1

\* ------------------------------------------------------------------ C28

\* The pass in progress has called wt.Pull, os.RemoveAll or the clone of
\* the recovery, or is about to.
PullsOrRecovers ==
    \/ pc \in {"pull", "remove", "reclone"}
    \/ \E i \in DOMAIN log :
          log[i].pull # "-" \/ log[i].removed # "-" \/ log[i].reclone # "-"

TookDone ==
    /\ pc' = "done"
    /\ ret' = Canceled
    /\ UNCHANGED <<tick, Senders, Repositories>>

\* The select of the loop took the case of the timer: the tick is consumed
\* and a pass starts, ctx and the senders on newRepos are left as they are.
TookTick ==
    /\ tick /\ ~tick'
    /\ pc' \in {"open", "ret"}
    /\ UNCHANGED <<cancelled, Senders, Repositories>>

\* The select of the loop took the case of newRepos: one sender is served
\* and its repository appended, ctx and the tick are left as they are.
TookRegistration ==
    /\ \E a \in Senders :
          /\ Senders' = Senders \ {a}
          /\ Repositories' = Append(Repositories, a.r)
    /\ pc' = "select"
    /\ UNCHANGED <<cancelled, tick>>

\* C29: a select of the loop serves one of cancellation, tick and
\* registration and leaves the others pending, and none of them is put off
\* for ever; stated of the registrations: while the loop runs, a call of
\* Add that waits for the loop to take its repository is served, unless
\* Run returns first.
C29_OneCasePerIteration ==
    /\ [][pc = "select" /\ (pc' # pc \/ ~(Senders \subseteq Senders')) =>
             TookDone \/ TookTick \/ TookRegistration]_vars
    /\ [](Polling /\ Senders # {} => <>(Senders = {} \/ pc = "done"))

\* ------------------------------------------------------------------ C30

\* The session's lifecycle: Run not called yet; Run in its initial pass or
\* about to signal InitialDone; Run in its loop; Run has returned.
Idle == pc = "idle"

Initializing == inInitial /\ Alive

Terminated == pc = "done"

\* The place of the session's state in the order Idle, Initializing,
\* Polling, Terminated.
Phase ==
    CASE Idle -> 0
      [] Initializing -> 1
      [] Polling -> 2
      [] Terminated -> 3

\* The initial pass has checked every repository without an error.
InitialPassSucceeded ==
    /\ pc = "ret"
    /\ err = Nil
    /\ Len(log) = Len(passRepos)
    /\ \A i \in DOMAIN log : log[i].err = Nil

\* What C30 states whichever way Terminated is entered: the state never
\* moves backwards, Initializing is entered from Idle, Polling from an
\* initial pass that succeeded, and once Run has returned nothing of the
\* pass or of Run's result changes.
MovesForward ==
    /\ Phase' >= Phase
    /\ Initializing' /\ ~Initializing => Idle
    /\ Polling' /\ ~Polling => Initializing /\ InitialPassSucceeded
    /\ Terminated => Terminated' /\ UNCHANGED <<passRepos, log, err, ret>>

\* C30 as claimed: the lifecycle moves forward only, and Terminated is
\* entered only from Polling, when the select takes the cancellation.
C30_LifecycleForward ==
    [][/\ MovesForward
       /\ Terminated' /\ ~Terminated =>
             Polling /\ cancelled /\ ret' = Canceled]_vars

\* C30 as amended: the lifecycle moves forward only, and Terminated is
\* entered either from Polling, when the select takes the cancellation and
\* Run returns ctx.Err(), or from Initializing, when the initial pass fails
\* and Run returns its error.
C30_LifecycleForwardOrAborted ==
    [][/\ MovesForward
       /\ Terminated' /\ ~Terminated =>
             \/ Polling /\ pc = "select" /\ cancelled /\ ret' = Canceled
             \/ /\ Initializing /\ pc = "ret" /\ err # Nil
                /\ ret' = err]_vars

\* Run has returned ctx.Err() after a pass of the loop, and a tick that
\* will not be taken is left in the timer's channel.
C30_Witness ==
    /\ Terminated
    /\ ret = Canceled
    /\ polled
    /\ tick

\* ------------------------------------------------------------------ C31

\* C31: events are delivered exactly once.  In every state the number of
\* events dispatched equals the number received plus the number in the
\* buffer of Events plus the number held by delivery goroutines still
\* waiting, also once Run has returned; no event is held twice; an event
\* that comes to be held is one just dispatched (no replay); and a receive
\* takes exactly one held event away.
C31_ExactlyOnce ==
    /\ [](nDispatched = nReceived + Len(Events) + Cardinality(sending))
    /\ [](/\ \A i, j \in DOMAIN Events : i # j => Events[i] # Events[j]
          /\ \A i \in DOMAIN Events : Events[i] \notin sending
          /\ Len(Events) <= EventsCap)
    /\ [][/\ \A e \in Held' \ Held :
                e.n = nDispatched + 1 /\ nDispatched' = e.n
          /\ Held \subseteq Held' \/ nReceived' = nReceived + 1
          /\ nReceived' # nReceived =>
                /\ nReceived' = nReceived + 1
                /\ \E e \in Held : Held' = Held \ {e}]_vars

\* Run has returned, an event has been received, the buffer of Events is
\* full and a delivery goroutine still waits with its event.
C31_Witness ==
    /\ Terminated
    /\ nReceived > 0
    /\ sending # {}
    /\ Len(Events) = EventsCap

\* ------------------------------------------------------------------ C32

\* The goroutine of Run is the only one that checks repositories: the step
\* of a check in progress stays in the pass, leaves the list it ranges over
\* and the checks already finished as they are, goes on with the same
\* repository or the next one, and touches the disk at the path of the
\* repository being checked only.
OneCheckAtATime ==
    InBackend =>
        /\ pc' \in {"open", "clone", "pull", "remove", "reclone", "ret"}
        /\ passRepos' = passRepos
        /\ Len(log') \in {Len(log), Len(log) + 1}
        /\ \A i \in 1..(Len(log) - 1) : log'[i] = log[i]
        /\ \A p \in Paths : p # repository.fullPath => local'[p] = local[p]

\* C32: passes never overlap.  At most one check is in progress; the tick
\* is taken by the select only, with no check in progress, and starts a
\* pass; a pass of the loop starts only by taking the pending tick, which
\* leaves none; and the timer puts a tick in its channel only when there is
\* none, in a step that changes nothing of the pass.  So the ticks that
\* elapse during a pass leave one tick, and one pass, pending.
C32_PassesNeverOverlap ==
    [][/\ OneCheckAtATime
       /\ tick /\ ~tick' =>
             pc = "select" /\ pc' \in {"open", "ret"} /\ Len(log') <= 1
       /\ PassStarts => tick /\ ~tick'
       /\ ~tick /\ tick' =>
             UNCHANGED <<pc, passRepos, log, local, err>>]_vars

\* A pass of the loop is checking its second repository and the timer has
\* put a tick in its channel since the pass started.
C32_Witness ==
    /\ Polling
    /\ InBackend
    /\ Len(log) = 2
    /\ tick

\* ------------------------------------------------------------------ C33

\* A pass of the loop has returned an error that is io.EOF.
PassEndedEOF == Polling /\ pc = "ret" /\ err = "eof"

InitialPassFailed == inInitial /\ initial /\ pc = "ret" /\ err # Nil

\* Run has returned the error of its initial pass.
Aborted == inInitial /\ pc = "done"

\* C34: when the initial pass with InitialEvent set fails at position i,
\* one event has been dispatched for each of the i - 1 repositories before
\* it and none for the failing one; Run's return of the error leaves every
\* event where it is; after it no signal is ever sent on InitialDone, an
\* event held by a delivery goroutine or by Events leaves only by being
\* received, and as long as one is held a delivery or a receive can
\* happen.
C34_EarlierEventsSurviveAbort ==
    /\ [](InitialPassFailed =>
            /\ \A j \in 1..(Len(log) - 1) :
                  /\ Len(log[j].evs) = 1
                  /\ log[j].evs[1].n = j
                  /\ log[j].evs[1].Path = passRepos[j].fullPath
            /\ log[Len(log)].evs = <<>>
            /\ nDispatched = Len(log) - 1
            /\ Cardinality(Held) + nReceived = nDispatched)
    /\ [][InitialPassFailed /\ pc' # pc =>
            /\ Aborted'
            /\ ret' = err
            /\ UNCHANGED <<Events, sending, nDispatched, nReceived>>]_vars
    /\ [](Aborted =>
            /\ initialDoneSent = 0
            /\ InitialDone = 0
            /\ Cardinality(Held) + nReceived = nDispatched
            /\ Held # {} => ENABLED Deliver \/ ENABLED ReceiveEvent)
    /\ [][Aborted =>
            /\ Aborted'
            /\ nDispatched' = nDispatched
            /\ Held' \subseteq Held
            /\ Held' # Held => nReceived' = nReceived + 1]_vars

\* Run has returned the error of an initial pass made with InitialEvent
\* set, that pass had dispatched an event before it failed, and none of
\* its events has been received yet.
C34_Witness ==
    /\ Aborted
    /\ InitialEvent
    /\ nDispatched > 0
    /\ nReceived = 0
    /\ Cardinality(Held) = nDispatched
    /\ InitialDone = 0

====
